---- MODULE Spec2Model ----
(***************************************************************************)
(* A model of the patch dataset (hssl/data/slide/slide.py) and of the      *)
(* tensor/device helpers (xfuse/utility/utility.py).                       *)
(*                                                                         *)
(* Slide.__getitem__ is a recursive method: every invocation (the first    *)
(* call and every retry) is one GetItem step.  The helpers are pure        *)
(* functions: each has a specification whose Init draws the arguments from *)
(* bounded sets and whose action applies the function.                     *)
(***************************************************************************)
EXTENDS Integers, Sequences, FiniteSets, TLC

VARIABLES
    pc,        \* position of the caller: new / ready / call / done / an exception
    self,      \* the Slide object: image, label, h, w, data
    patches,   \* the subclass: patches[i + 1] is what _get_patch(i) returns; Len is __len__
    frames,    \* the nested __getitem__ invocations, outermost first: each its idx,
               \* whether it has run, and its local label array (after line 42)
    sample,    \* the dict returned by __getitem__
    arg,       \* the arguments of a helper call / of Slide(...)
    out        \* the return value (or exception) of a helper call

vars == <<pc, self, patches, frames, sample, arg, out>>

----------------------------------------------------------------------------
(* Bounds                                                                   *)

\* Shape of the crops _get_patch returns (rows, columns).
CropH == 4
CropW == 4
\* Rows of the feature table (label ids are 1..NumObj).
NumObj == 3
\* Labelled (nonzero) pixels of a crop in the exhaustive family of crops.
MaxFg == 2
\* Largest dataset length.
MaxLen == 4
\* Nested __getitem__ retries the interpreter allows before RecursionError
\* (CPython: sys.getrecursionlimit() less the frames already in use).
RecursionLimit == 2
\* Largest image / label-mask side at construction.
MaxDim == 4

----------------------------------------------------------------------------
(* Label crops                                                              *)

Pix == (1..CropH) \X (1..CropW)

Border == {p \in Pix : p[1] \in {1, CropH} \/ p[2] \in {1, CropW}}

\* 4-neighbourhood: scipy's default structuring element (connectivity 1).
Neigh(p) == {q \in Pix : \/ (q[1] = p[1] /\ (q[2] = p[2] + 1 \/ q[2] = p[2] - 1))
                         \/ (q[2] = p[2] /\ (q[1] = p[1] + 1 \/ q[1] = p[1] - 1))}

Background == [p \in Pix |-> 0]

\* A crop whose pixels in S carry the ids f gives them, background elsewhere.
CropOf(S, f) == [p \in Pix |-> IF p \in S THEN f[p] ELSE 0]

\* The crops with at most k labelled pixels.
RECURSIVE CropsUpTo(_)
CropsUpTo(k) ==
    IF k = 0 THEN {Background}
    ELSE LET fewer == CropsUpTo(k - 1)
         IN  fewer \cup {[c EXCEPT ![p] = v] : c \in fewer, p \in Pix, v \in 1..NumObj}

Crops == CropsUpTo(MaxFg)

OnePixel(p, v) == CropOf({p}, [q \in {p} |-> v])

\* A few crops for the longer datasets: empty, one object inside, one object
\* on the border, another object inside.
FewCrops == {Background, OnePixel(<<2, 2>>, 1), OnePixel(<<1, 1>>, 2),
             OnePixel(<<3, 3>>, 3)}

Datasets == {<<c>> : c \in Crops}
              \cup UNION {[1..n -> FewCrops] : n \in 1..MaxLen}

\* self.data: one row per object; row r holds the features of object r + 1.
FeatureTable == [r \in 0..(NumObj - 1) |-> [object |-> r + 1]]

----------------------------------------------------------------------------
(* Slide.__getitem__, line by line                                          *)

\* binary_dilation(tmp, structure, -1, mask, None, 1): starting from nothing,
\* with everything outside the array set, grow inside mask until no change.
RECURSIVE Dilate(_, _)
Dilate(S, mask) ==
    LET T == S \cup {p \in mask : \E q \in S : q \in Neigh(p)}
    IN  IF T = S THEN S ELSE Dilate(T, mask)

\* scipy.ndimage.binary_fill_holes(input): input plus every region of its
\* complement that is not connected to the border of the array.
BinaryFillHoles(input) ==
    LET mask == Pix \ input
    IN  Pix \ Dilate(mask \cap Border, mask)

\* label[np.invert(binary_fill_holes(label == 0))] = 0
RemovePartial(lab) ==
    LET filled == BinaryFillHoles({p \in Pix : lab[p] = 0})
    IN  [p \in Pix |-> IF p \notin filled THEN 0 ELSE lab[p]]

RECURSIVE SortedSeq(_)
SortedSeq(S) ==
    IF S = {} THEN <<>>
    ELSE LET m == CHOOSE x \in S : \A y \in S : x <= y
         IN  <<m>> \o SortedSeq(S \ {m})

\* [*sorted(np.unique(label))]
Labels(lab) == SortedSeq({lab[p] : p \in Pix})

\* [x - 1 for x in labels if x > 0]
RowIndices(labels) ==
    LET pos == SelectSeq(labels, LAMBDA x : x > 0)
    IN  [i \in 1..Len(pos) |-> pos[i] - 1]

\* self.data[rows, :]
SelectRows(table, rows) == [i \in 1..Len(rows) |-> table[rows[i]]]

\* side='right' instead of the default side='left'.
SearchSorted_Right(labels, v) == Cardinality({i \in 1..Len(labels) : labels[i] <= v})

\* np.searchsorted(labels, v): the number of entries of labels below v.
SearchSorted(labels, v) == Cardinality({i \in 1..Len(labels) : labels[i] < v})

\* Retries the same index.
NextIndex_Stay(i, n) == i % n

\* Steps backwards instead of forwards.
NextIndex_Back(i, n) == (i + n - 1) % n

\* (idx + 1) % len(self)
NextIndex(i, n) == (i + 1) % n

NoSample == [image |-> 0, label |-> Background, data |-> <<>>, type |-> "none"]

NoArg == [fn |-> "none"]
NoOut == [fn |-> "none"]

Frame(i) == [idx |-> i, ran |-> FALSE, label |-> Background]

Top == frames[Len(frames)]

\* The caller asks for sample i.
Call(i) ==
    /\ pc = "ready"
    /\ pc' = "call"
    /\ frames' = <<Frame(i)>>
    /\ UNCHANGED <<self, patches, sample, arg, out>>

\* One invocation of __getitem__(idx): lines 39-55.  The image crop is
\* carried as the index it was taken at.  The recursive call of line 47
\* pushes a frame, which the interpreter refuses beyond its recursion limit.
GetItem ==
    /\ pc = "call"
    /\ LET i      == Top.idx
           raw    == patches[i + 1]
           lab    == RemovePartial(raw)
           labels == Labels(lab)
           data   == SelectRows(self.data, RowIndices(labels))
           ran    == [frames EXCEPT ![Len(frames)] = [idx |-> i, ran |-> TRUE, label |-> lab]]
       IN  IF Len(data) = 0
           THEN IF Len(frames) - 1 < RecursionLimit
                THEN /\ frames' = Append(ran, Frame(NextIndex(i, Len(patches))))
                     /\ pc' = "call"
                     /\ UNCHANGED sample
                ELSE /\ frames' = ran
                     /\ pc' = "RecursionError"
                     /\ UNCHANGED sample
           ELSE /\ frames' = ran
                /\ sample' = [image |-> i,
                              label |-> [p \in Pix |-> SearchSorted(labels, lab[p])],
                              data  |-> data,
                              type  |-> "ST"]
                /\ pc' = "done"
    /\ UNCHANGED <<self, patches, arg, out>>

NoImage == [height |-> 0, width |-> 0]

NoSlide == [image |-> NoImage, label |-> NoImage, h |-> 0, w |-> 0, data |-> <<>>]

\* Lines 22-26: the fields of a slide over an image and a label mask.
Constructed(image, mask) ==
    [image |-> image, label |-> mask, h |-> image.height, w |-> image.width,
     data |-> FeatureTable]

\* Compares the heights only.
SameShape_HeightOnly(slide) == slide.h = slide.label.height

\* Line 28: self.h == self.label.height and self.w == self.label.width
SameShape(slide) == slide.h = slide.label.height /\ slide.w = slide.label.width

\* Slide(data, image, label): lines 16-28.  A failed assertion leaves the
\* caller without an object.
Construct ==
    /\ pc = "new"
    /\ LET slide == Constructed(arg.image, arg.label)
       IN  IF SameShape(slide)
           THEN pc' = "ready" /\ self' = slide
           ELSE pc' = "AssertionError" /\ self' = NoSlide
    /\ UNCHANGED <<patches, frames, sample, arg, out>>

Images == [height : 1..MaxDim, width : 1..MaxDim]

InitConstruct ==
    /\ pc = "new"
    /\ self = NoSlide
    /\ patches = <<>>
    /\ frames = <<>>
    /\ sample = NoSample
    /\ arg \in [fn : {"Slide"}, image : Images, label : Images]
    /\ out = NoOut

NextConstruct == Construct

SpecConstruct == InitConstruct /\ [][NextConstruct]_vars

Init ==
    /\ pc = "ready"
    /\ self = Constructed([height |-> CropH, width |-> CropW],
                          [height |-> CropH, width |-> CropW])
    /\ patches \in Datasets
    /\ frames = <<>>
    /\ sample = NoSample
    /\ arg = NoArg
    /\ out = NoOut

Next ==
    \/ \E i \in 0..(Len(patches) - 1) : Call(i)
    \/ GetItem

Spec == Init /\ [][Next]_vars

\* The longer datasets only.
InitRetry ==
    /\ Init
    /\ patches \in UNION {[1..n -> FewCrops] : n \in 1..MaxLen}

\* The interpreter runs the call it has started.
FairSpec == InitRetry /\ [][Next]_vars /\ WF_vars(GetItem)

----------------------------------------------------------------------------
(* Nested structures of tensors: xfuse/utility/utility.py                   *)

\* Nodes of the largest structure.
MaxNodes == 4

Devices == {"cpu", "cuda"}

\* A torch.Tensor on device d.
Tensor(d) == [kind |-> "tensor", device |-> d, keys |-> <<>>, items |-> <<>>]

\* A leaf that is no tensor, list or dict (a number, a string, None).
Leaf == [kind |-> "leaf", device |-> "none", keys |-> <<>>, items |-> <<>>]

\* A list, a dict (its keys in insertion order) or a tuple of the items.
RECURSIVE KeysTo(_)
KeysTo(n) == IF n = 0 THEN <<>> ELSE Append(KeysTo(n - 1), n)

Container(kind, items) ==
    [kind |-> kind, device |-> "none",
     keys |-> IF kind = "dict" THEN KeysTo(Len(items)) ELSE <<>>,
     items |-> items]

\* The structures of n nodes, F[n] being the item sequences of n - 1 nodes.
StructsOfSize(F, n) ==
    (IF n = 1 THEN {Leaf} \cup {Tensor(d) : d \in Devices} ELSE {})
        \cup {Container(k, items) : k \in {"list", "dict", "tuple"}, items \in F[n]}

\* The item sequences of 0, 1, ..., m nodes in all.
RECURSIVE ItemsUpTo(_)
ItemsUpTo(m) ==
    IF m = 0 THEN <<{<<>>}>>
    ELSE LET F == ItemsUpTo(m - 1)
         IN  Append(F, UNION {{<<t>> \o rest : t \in StructsOfSize(F, k),
                                               rest \in F[m - k + 1]} : k \in 1..m})

\* The structures of at most n nodes.
StructsUpTo(n) ==
    LET F == ItemsUpTo(n - 1)
    IN  UNION {StructsOfSize(F, k) : k \in 1..n}

\* The recursion of lines 195-198 left out: only a top-level tensor moves.
RECURSIVE ToDevice_Shallow(_, _)
ToDevice_Shallow(x, device) ==
    IF x.kind = "tensor" THEN [x EXCEPT !.device = device]
    ELSE IF x.kind = "list" THEN x
    ELSE IF x.kind = "dict"
    THEN [x EXCEPT !.items = [i \in 1..Len(x.items) |-> ToDevice_Shallow(x.items[i], device)]]
    ELSE x

\* to_device(x, device) with device resolved: lines 193-199.
RECURSIVE ToDevice(_, _)
ToDevice(x, device) ==
    IF x.kind = "tensor" THEN [x EXCEPT !.device = device]
    ELSE IF x.kind = "list"
    THEN [x EXCEPT !.items = [i \in 1..Len(x.items) |-> ToDevice(x.items[i], device)]]
    ELSE IF x.kind = "dict"
    THEN [x EXCEPT !.items = [i \in 1..Len(x.items) |-> ToDevice(x.items[i], device)]]
    ELSE x

\* Lines 191-192: device defaults to the session's default_device.
ResolveDevice(device, default_device) ==
    IF device = "None" THEN default_device ELSE device

Found(d) == [raised |-> FALSE, device |-> d, cls |-> <<>>]

\* raise NoDevice(...) of line 136.  The class statement of line 115 runs in
\* every invocation, so the class raised is the one of the invocation that
\* raises: cls is that invocation, as its path from the outermost call.
Raised(frame) == [raised |-> TRUE, device |-> "none", cls |-> frame]

\* find_device(x), lines 119-136, in the invocation `frame`; Scan is the for
\* loop over the items from the i-th on.  `except NoDevice` catches what is
\* an instance of this invocation's own NoDevice class.
RECURSIVE FindDevice(_, _), Scan(_, _, _)
FindDevice(x, frame) ==
    IF x.kind = "tensor" THEN Found(x.device)
    ELSE IF x.kind \in {"list", "dict"} THEN Scan(x, frame, 1)
    ELSE Raised(frame)
Scan(x, frame, i) ==
    IF i > Len(x.items) THEN Raised(frame)
    ELSE LET r == FindDevice(x.items[i], frame \o <<i>>)
         IN  IF ~r.raised THEN r
             ELSE IF r.cls = frame THEN Scan(x, frame, i + 1)
             ELSE r

NoValue == [raised |-> FALSE, device |-> "none", cls |-> <<>>, value |-> Leaf]

\* A call of to_device(x, device).
CallToDevice ==
    /\ pc = "input"
    /\ arg.fn = "to_device"
    /\ out' = [NoValue EXCEPT
                  !.value = ToDevice(arg.x, ResolveDevice(arg.device, arg.default_device))]
    /\ pc' = "returned"
    /\ UNCHANGED <<self, patches, frames, sample, arg>>

\* The result is passed to to_device again, with the same device.
CallToDeviceAgain ==
    /\ pc = "returned"
    /\ arg.fn = "to_device"
    /\ arg' = [arg EXCEPT !.x = out.value]
    /\ out' = [NoValue EXCEPT
                  !.value = ToDevice(out.value, ResolveDevice(arg.device, arg.default_device))]
    /\ pc' = "reapplied"
    /\ UNCHANGED <<self, patches, frames, sample>>

\* A call of find_device(x).
CallFindDevice ==
    /\ pc = "input"
    /\ arg.fn = "find_device"
    /\ LET r == FindDevice(arg.x, <<>>)
       IN  out' = [NoValue EXCEPT !.raised = r.raised, !.device = r.device, !.cls = r.cls]
    /\ pc' = IF out'.raised THEN "NoDevice" ELSE "returned"
    /\ UNCHANGED <<self, patches, frames, sample, arg>>

InitDevice ==
    /\ pc = "input"
    /\ self = NoSlide
    /\ patches = <<>>
    /\ frames = <<>>
    /\ sample = NoSample
    /\ arg \in {a \in [fn : {"to_device", "find_device"}, x : StructsUpTo(MaxNodes),
                        device : Devices \cup {"None"}, default_device : Devices] :
                    a.fn = "find_device" => (a.device = "None" /\ a.default_device = "cpu")}
    /\ out = NoValue

NextDevice ==
    \/ CallToDevice
    \/ CallToDeviceAgain
    \/ CallFindDevice

SpecDevice == InitDevice /\ [][NextDevice]_vars

----------------------------------------------------------------------------
(* design_matrix_from: xfuse/utility/utility.py                             *)

\* Samples of the largest design.
MaxSamples == 2

\* Sample ids, in the order the design lists them.
SampleNames == <<"s1", "s2", "s3", "s4">>

\* Covariate names and values, each in sorted (alphabetical) order.
CovariateOrder == <<"batch", "section", "tissue">>
ValueOrder == <<"x", "y", "z">>

\* A cell without a value.
NaN == "NaN"
\* The integer 0 of line 78, which is none of the (string) categories.
Zero == "0"

\* The elements of S in the order of `order`.
SortBy(S, order) == SelectSeq(order, LAMBDA e : e \in S)

Range(f) == {f[i] : i \in DOMAIN f}

\* Designs: per sample a value or nothing for "batch" and for "tissue".
DesignRows == [{"batch", "tissue"} -> {"x", "y", NaN}]
Designs == UNION {[1..n -> DesignRows] : n \in 1..MaxSamples}

\* Declared category lists: no, one or two categories, in either order.
CategoryLists == {<<>>, <<"x">>, <<"z">>, <<"x", "z">>, <<"z", "x">>}

\* Explicit covariate lists over "batch" (in the design) and "section" (not).
CovariateLists ==
    {<<>>}
      \cup {<<[name |-> c, values |-> v]>> : c \in {"batch", "section"}, v \in CategoryLists}
      \cup {<<[name |-> c[1], values |-> v], [name |-> c[2], values |-> u]>> :
                c \in {<<"batch", "section">>, <<"section", "batch">>},
                v \in CategoryLists, u \in CategoryLists}

\* Lines 67-73: the columns of the concatenated table, sorted.
TableColumns(design) ==
    SortBy({c \in {"batch", "tissue"} : \E i \in 1..Len(design) : design[i][c] # NaN},
           CovariateOrder)

\* The column of covariate c, one cell per sample; line 78 for a covariate
\* the table does not have.
Column(design, c) ==
    IF c \in Range(TableColumns(design))
    THEN [i \in 1..Len(design) |-> design[i][c]]
    ELSE [i \in 1..Len(design) |-> Zero]

\* Lines 79-83 and 89: the columns kept, each with its categories.
Categorical(design, covariates) ==
    IF covariates.given
    THEN [j \in 1..Len(covariates.list) |->
             [name |-> covariates.list[j].name,
              categories |-> covariates.list[j].values,
              cells |-> Column(design, covariates.list[j].name)]]
    ELSE LET cols == TableColumns(design)
         IN  [j \in 1..Len(cols) |->
                 [name |-> cols[j],
                  categories |-> SortBy(Range(Column(design, cols[j])) \ {NaN}, ValueOrder),
                  cells |-> Column(design, cols[j])]]

\* covariate.cat.codes: the 0-based place of the cell among the categories,
\* -1 for a cell that is none of them.
Code(categories, cell) ==
    IF \E k \in 1..Len(categories) : categories[k] = cell
    THEN (CHOOSE k \in 1..Len(categories) : categories[k] = cell) - 1
    ELSE -1

\* _encode, lines 97-104, for a covariate with at least one category:
\* np.eye(K)[:, codes] (a negative code counts from the end), then the
\* columns of code -1 set to 0.
Encode(col) ==
    LET K == Len(col.categories)
    IN  [k \in 1..K |->
            [i \in 1..Len(col.cells) |->
                LET code == Code(col.categories, col.cells[i])
                IN  IF code = -1 THEN 0
                    ELSE IF (code + K) % K = k - 1 THEN 1 ELSE 0]]

RECURSIVE Stack(_, _)
\* pd.concat(vs, keys=ks): the blocks of the columns from the j-th on.
Stack(cols, j) ==
    IF j > Len(cols) THEN [index |-> <<>>, values |-> <<>>]
    ELSE LET rest == Stack(cols, j + 1)
         IN  [index  |-> [k \in 1..Len(cols[j].categories) |->
                                <<cols[j].name, cols[j].categories[k]>>] \o rest.index,
              values |-> Encode(cols[j]) \o rest.values]

NoMatrix == [status |-> "none", index |-> <<>>, columns |-> <<>>, values |-> <<>>,
             warned |-> {}]

\* design_matrix_from(design, covariates), lines 67-107.
DesignMatrixFrom(design, covariates) ==
    LET ids  == [i \in 1..Len(design) |-> SampleNames[i]]
        cols == Categorical(design, covariates)
        warned == {cols[j].name : j \in {j \in 1..Len(cols) :
                      \E i \in 1..Len(design) :
                          Code(cols[j].categories, cols[j].cells[i]) = -1}}
    IN  IF ~covariates.given /\ Len(cols) = 0
        THEN [NoMatrix EXCEPT !.status = "returned", !.columns = ids]
        ELSE IF \E j \in 1..Len(cols) : Len(cols[j].categories) = 0
        THEN [NoMatrix EXCEPT !.status = "IndexError", !.warned = warned]
        ELSE IF Len(cols) = 0
        THEN [NoMatrix EXCEPT !.status = "ValueError", !.warned = warned]
        ELSE [status |-> "returned", index |-> Stack(cols, 1).index, columns |-> ids,
              values |-> Stack(cols, 1).values, warned |-> warned]

\* A call of design_matrix_from.
CallDesignMatrixFrom ==
    /\ pc = "input"
    /\ arg.fn = "design_matrix_from"
    /\ out' = DesignMatrixFrom(arg.design, arg.covariates)
    /\ pc' = out'.status
    /\ UNCHANGED <<self, patches, frames, sample, arg>>

InitDesign ==
    /\ pc = "input"
    /\ self = NoSlide
    /\ patches = <<>>
    /\ frames = <<>>
    /\ sample = NoSample
    /\ arg \in [fn : {"design_matrix_from"}, design : Designs,
                covariates : [given : {TRUE}, list : CovariateLists]
                                \cup {[given |-> FALSE, list |-> <<>>]}]
    /\ out = NoMatrix

NextDesign == CallDesignMatrixFrom

SpecDesign == InitDesign /\ [][NextDesign]_vars

----------------------------------------------------------------------------
(* center_crop: xfuse/utility/utility.py                                    *)

\* Largest extent of an axis, largest requested extent, most axes.
MaxExtent == 4
MaxTarget == 6
MaxAxes == 2

Min(x, y) == IF x <= y THEN x ELSE y
Max(x, y) == IF x >= y THEN x ELSE y

\* round(n / 2) of Python 3: to the nearest integer, a half to the even one.
RoundHalf(n) ==
    IF n % 2 = 0 THEN n \div 2
    ELSE LET below == (n - 1) \div 2
         IN  IF below % 2 = 0 THEN below ELSE below + 1

\* x[slice(start, stop)] on an axis of extent a: negative bounds count from
\* the end, both are clipped to the axis.  The elements start..stop-1.
Slice(start, stop, a) ==
    LET lo == IF start < 0 THEN Max(start + a, 0) ELSE Min(start, a)
        hi == IF stop < 0 THEN Max(stop + a, 0) ELSE Min(stop, a)
    IN  [start |-> lo, stop |-> Max(lo, hi)]

\* The stop of the slice given as b instead of start + b.
CenterSlice_StopAtB(a, b) ==
    IF b.none THEN Slice(0, a, a)
    ELSE Slice(RoundHalf(a - b.size), b.size, a)

\* Lines 50-52 on one axis of extent a with target b.
CenterSlice(a, b) ==
    IF b.none THEN Slice(0, a, a)
    ELSE Slice(RoundHalf(a - b.size), RoundHalf(a - b.size) + b.size, a)

\* center_crop(x, target_shape), lines 47-56, on the shape of x: zip pairs
\* the axes up to the shorter of the two, the other axes of x stay whole.
CenterCrop(shape, target_shape) ==
    [j \in 1..Len(shape) |->
        IF j <= Len(target_shape) THEN CenterSlice(shape[j], target_shape[j])
        ELSE Slice(0, shape[j], shape[j])]

Targets == [none : {FALSE}, size : 0..MaxTarget] \cup {[none |-> TRUE, size |-> 0]}

\* A call of center_crop.
CallCenterCrop ==
    /\ pc = "input"
    /\ arg.fn = "center_crop"
    /\ out' = [fn |-> "center_crop", slices |-> CenterCrop(arg.shape, arg.target_shape)]
    /\ pc' = "returned"
    /\ UNCHANGED <<self, patches, frames, sample, arg>>

InitCrop ==
    /\ pc = "input"
    /\ self = NoSlide
    /\ patches = <<>>
    /\ frames = <<>>
    /\ sample = NoSample
    /\ arg \in [fn : {"center_crop"},
                shape : UNION {[1..n -> 0..MaxExtent] : n \in 1..MaxAxes},
                target_shape : UNION {[1..n -> Targets] : n \in 1..MaxAxes}]
    /\ out = [fn |-> "center_crop", slices |-> <<>>]

NextCrop == CallCenterCrop

SpecCrop == InitCrop /\ [][NextCrop]_vars

----------------------------------------------------------------------------
(* visualize_metagene_profile: xfuse/analyze/metagenes.py                   *)

\* Genes of the largest profile, largest num_high and num_low.
MaxGenes == 4
MaxNum == 5

\* Profiles of n genes: gene g has the mean profile[g], all means distinct.
Profiles(n) == {f \in [1..n -> 1..n] : \A g, h \in 1..n : f[g] = f[h] => g = h}

\* profile.sort_values("mean"): the genes by ascending mean.
SortValues(profile) ==
    [r \in 1..Len(profile) |-> CHOOSE g \in 1..Len(profile) : profile[g] = r]

\* x.iloc[start:stop] of the rows x (start, stop as Python slice bounds).
ILoc(x, start, stop) ==
    LET sl == Slice(start, stop, Len(x))
    IN  [r \in 1..(sl.stop - sl.start) |-> x[sl.start + r]]

\* Lines 89-91: the rows handed to errorbar, lowest first.  A slice from
\* -num_high runs to the end of the rows.
SelectedRows(profile, num_high, num_low) ==
    LET low == Max(Min(Len(profile) - num_high, num_low), 0)
        x   == SortValues(profile)
    IN  [low  |-> ILoc(x, 0, low),
         high |-> ILoc(x, 0 - num_high, Len(x))]

\* A call of visualize_metagene_profile, lines 85-102: the rows plotted; the
\* vlines call reads x.index[0], which no empty selection has.
CallVisualizeMetageneProfile ==
    /\ pc = "input"
    /\ arg.fn = "visualize_metagene_profile"
    /\ LET sel == SelectedRows(arg.profile, arg.num_high, arg.num_low)
       IN  /\ out' = [fn |-> "visualize_metagene_profile",
                      low |-> sel.low, high |-> sel.high, x |-> sel.low \o sel.high]
           /\ pc' = IF Len(sel.low \o sel.high) = 0 THEN "IndexError" ELSE "returned"
    /\ UNCHANGED <<self, patches, frames, sample, arg>>

InitMetagene ==
    /\ pc = "input"
    /\ self = NoSlide
    /\ patches = <<>>
    /\ frames = <<>>
    /\ sample = NoSample
    /\ arg \in [fn : {"visualize_metagene_profile"},
                profile : UNION {Profiles(n) : n \in 0..MaxGenes},
                num_high : 0..MaxNum, num_low : 0..MaxNum]
    /\ out = [fn |-> "visualize_metagene_profile", low |-> <<>>, high |-> <<>>, x |-> <<>>]

NextMetagene == CallVisualizeMetageneProfile

SpecMetagene == InitMetagene /\ [][NextMetagene]_vars

----------------------------------------------------------------------------
(* Claims about Slide.__getitem__                                           *)

Ids(lab) == {lab[p] : p \in Pix} \ {0}

OnBorderIds(lab) == {lab[p] : p \in Border} \ {0}

\* The objects of a crop with no pixel on the crop border.
FullyInside(lab) == Ids(lab) \ OnBorderIds(lab)

RawOf(j) == patches[frames[j].idx + 1]

\* 1-based rank of v among the ids S.
Rank(v, S) == Cardinality({u \in S : u <= v})

\* C1: when the raw crop at the requested index holds an object with no
\* pixel on the crop border, the first invocation returns a sample of that
\* crop (no retry) in which every such object is still present.
C1_FullyInsideKept ==
    (Len(frames) >= 1 /\ frames[1].ran /\ FullyInside(RawOf(1)) # {})
        => /\ pc = "done"
           /\ Len(frames) = 1
           /\ sample.image = frames[1].idx
           /\ FullyInside(RawOf(1)) \subseteq Ids(frames[1].label)
           /\ Len(sample.data) >= Cardinality(FullyInside(RawOf(1)))

\* C2: a returned sample's label map has exactly the values 0..k, k the
\* number of surviving ids; background stays 0, an id maps to its 1-based
\* rank among the surviving ids; data has k rows, row j the feature row of
\* the j-th smallest surviving id.
C2_DenseRemap ==
    pc = "done" =>
        LET raw == RawOf(Len(frames))
            lab == Top.label
            S   == Ids(lab)
            k   == Cardinality(S)
        IN  /\ \A p \in Pix : lab[p] \in {0, raw[p]}
            /\ {sample.label[p] : p \in Pix} = 0..k
            /\ \A p \in Pix : sample.label[p] = IF lab[p] = 0 THEN 0 ELSE Rank(lab[p], S)
            /\ Len(sample.data) = k
            /\ \A v \in S : sample.data[Rank(v, S)] = FeatureTable[v - 1]
            /\ sample.image = Top.idx
            /\ sample.type = "ST"

C2_Witness ==
    /\ pc = "done"
    /\ Ids(Top.label) = {1, 3}
    /\ OnBorderIds(RawOf(Len(frames))) = {}

\* C3: after partial-object removal no border pixel is nonzero, and every
\* id that had a pixel on the crop border is gone from the whole crop, so
\* its feature row is not selected.
C3_PartialRemoved ==
    \A j \in 1..Len(frames) :
        frames[j].ran =>
            /\ \A p \in Border : frames[j].label[p] = 0
            /\ OnBorderIds(RawOf(j)) \cap Ids(frames[j].label) = {}
            /\ (pc = "done" /\ j = Len(frames)) =>
                   \A v \in OnBorderIds(RawOf(j)) :
                       \A r \in 1..Len(sample.data) : sample.data[r] # FeatureTable[v - 1]

\* The crop at index i keeps an object after partial-object removal.
Survives(i) == Ids(RemovePartial(patches[i + 1])) # {}

\* The first index with a surviving object in the cyclic order i, i+1, ...
RECURSIVE FirstSurviving(_, _)
FirstSurviving(i, left) ==
    IF left = 0 \/ Survives(i) THEN i
    ELSE FirstSurviving((i + 1) % Len(patches), left - 1)

RetryOrder ==
    \A j \in 2..Len(frames) :
        /\ Ids(frames[j - 1].label) = {}
        /\ frames[j].idx = (frames[j - 1].idx + 1) % Len(patches)

ReturnsFirstSurviving ==
    pc = "done" =>
        /\ Len(sample.data) > 0
        /\ Survives(sample.image)
        /\ sample.image = FirstSurviving(frames[1].idx, Len(patches))

\* C4 as stated: an empty crop is retried at the next index in cyclic order,
\* the sample returned is that of the first index with a surviving object,
\* and a retry is at another index than the empty one, for every length.
C4_RetryDifferentIndex ==
    /\ RetryOrder
    /\ ReturnsFirstSurviving
    /\ \A j \in 2..Len(frames) : frames[j].idx # frames[j - 1].idx

\* C4 amended: the same, the retry being at another index exactly when the
\* dataset holds at least two samples; a dataset of one retries index 0.
C4_RetryNextIndex ==
    /\ RetryOrder
    /\ ReturnsFirstSurviving
    /\ \A j \in 2..Len(frames) :
          (frames[j].idx # frames[j - 1].idx) <=> (Len(patches) >= 2)

C4_Witness ==
    /\ pc = "done"
    /\ Len(frames) = 3
    /\ frames[3].idx < frames[1].idx
    /\ sample.image = frames[3].idx

Finished == pc \in {"done", "RecursionError"}

Retries == Len(frames) - 1

\* Retries needed from index i to reach the first index with a surviving object.
Distance(i) == (FirstSurviving(i, Len(patches)) - i + Len(patches)) % Len(patches)

\* C5 as stated: if some crop holds a fully contained object the call
\* returns within len-1 retries, and if none does the call never ends:
\* neither a sample nor an error.
C5_UnboundedRetry ==
    /\ (\E i \in 0..(Len(patches) - 1) : FullyInside(patches[i + 1]) # {})
          => (pc # "RecursionError" /\ Retries <= Len(patches) - 1)
    /\ (\A i \in 0..(Len(patches) - 1) : FullyInside(patches[i + 1]) = {})
          => ~Finished

C5_SafetyPart ==
    /\ Retries <= RecursionLimit
    /\ pc = "done" => (Retries = Distance(frames[1].idx) /\ Retries <= Len(patches) - 1)
    /\ (Len(frames) >= 1 /\ Survives(FirstSurviving(frames[1].idx, Len(patches)))
          /\ Distance(frames[1].idx) <= RecursionLimit) => pc # "RecursionError"
    /\ pc = "RecursionError" =>
          /\ Retries = RecursionLimit
          /\ \A j \in 1..Len(frames) : Ids(frames[j].label) = {}
    /\ (\A i \in 0..(Len(patches) - 1) : ~Survives(i)) => pc # "done"

\* C5 amended: every call ends.  It returns, after as many retries as the
\* first index with a surviving object is away (at most len-1), when that
\* many nested calls fit under the interpreter's recursion limit; otherwise,
\* and always when no crop has a surviving object, it ends with
\* RecursionError at the limit and returns no sample.  (A call that has not
\* ended can take its next step, every step ends the call or adds a frame,
\* and the frames are bounded.)
C5_RetryEnds ==
    /\ C5_SafetyPart
    /\ pc = "call" =>
          /\ Top.idx \in 0..(Len(patches) - 1)
          /\ ~Top.ran
          /\ \A j \in 1..(Len(frames) - 1) : frames[j].ran
    /\ Finished => \A j \in 1..Len(frames) : frames[j].ran

C5_Witness ==
    /\ pc = "done"
    /\ Len(patches) >= 3
    /\ Retries = RecursionLimit

----------------------------------------------------------------------------
(* Claim about Slide.__init__                                               *)

\* C6: construction yields a slide exactly when image and label mask have
\* the same height and the same width; otherwise it ends with an assertion
\* failure, no slide exists and nothing further runs.
C6_ConstructionChecksShape ==
    pc # "new" =>
        IF arg.image.height = arg.label.height /\ arg.image.width = arg.label.width
        THEN /\ pc = "ready"
             /\ self.image = arg.image /\ self.label = arg.label
             /\ self.h = arg.image.height /\ self.w = arg.image.width
        ELSE /\ pc = "AssertionError"
             /\ self = NoSlide
             /\ ~ENABLED NextConstruct

C6_Witness ==
    /\ pc = "AssertionError"
    /\ arg.image.height = arg.label.height
    /\ arg.image.width # arg.label.width

----------------------------------------------------------------------------
(* Claims about find_device and to_device                                   *)

\* The structures built of lists and dicts only.
RECURSIVE NoTuple(_)
NoTuple(x) == x.kind # "tuple" /\ \A i \in 1..Len(x.items) : NoTuple(x.items[i])

\* The devices of the tensors reachable through lists and dict values, in
\* depth-first order.
RECURSIVE TensorDevices(_), TensorDevicesFrom(_, _)
TensorDevices(x) ==
    IF x.kind = "tensor" THEN <<x.device>>
    ELSE IF x.kind \in {"list", "dict"} THEN TensorDevicesFrom(x, 1)
    ELSE <<>>
TensorDevicesFrom(x, i) ==
    IF i > Len(x.items) THEN <<>>
    ELSE TensorDevices(x.items[i]) \o TensorDevicesFrom(x, i + 1)

\* C7: find_device returns the device of the first tensor in depth-first
\* order whenever a tensor is reachable, also behind siblings that hold no
\* tensor; it raises only when no tensor is reachable.
C7_FirstTensorFound ==
    (arg.fn = "find_device" /\ pc # "input" /\ NoTuple(arg.x)) =>
        IF TensorDevices(arg.x) = <<>>
        THEN pc = "NoDevice" /\ out.raised
        ELSE pc = "returned" /\ ~out.raised /\ out.device = Head(TensorDevices(arg.x))

\* y has the nesting, keys, lengths and order of x, and the leaves of x.
RECURSIVE SameNesting(_, _)
SameNesting(x, y) ==
    /\ y.kind = x.kind
    /\ y.keys = x.keys
    /\ Len(y.items) = Len(x.items)
    /\ \A i \in 1..Len(x.items) : SameNesting(x.items[i], y.items[i])

\* Every tensor of x, at any depth and in any container, is on device d.
RECURSIVE AllOn(_, _)
AllOn(x, d) ==
    /\ x.kind = "tensor" => x.device = d
    /\ \A i \in 1..Len(x.items) : AllOn(x.items[i], d)

\* Every tensor of x reached through lists and dicts only is on device d,
\* and y differs from x in nothing else.
RECURSIVE MovedThroughListsAndDicts(_, _, _)
MovedThroughListsAndDicts(x, y, d) ==
    IF x.kind = "tensor" THEN y = Tensor(d)
    ELSE IF x.kind \in {"list", "dict"}
    THEN /\ y.kind = x.kind /\ y.keys = x.keys /\ y.device = x.device
         /\ Len(y.items) = Len(x.items)
         /\ \A i \in 1..Len(x.items) : MovedThroughListsAndDicts(x.items[i], y.items[i], d)
    ELSE y = x

TargetDevice == ResolveDevice(arg.device, arg.default_device)

----------------------------------------------------------------------------
(* Claim about design_matrix_from                                           *)

RECURSIVE SumOfLengths(_, _)
SumOfLengths(list, j) ==
    IF j > Len(list) THEN 0 ELSE Len(list[j].values) + SumOfLengths(list, j + 1)

RECURSIVE DeclaredRows(_, _)
DeclaredRows(list, j) ==
    IF j > Len(list) THEN <<>>
    ELSE [k \in 1..Len(list[j].values) |-> <<list[j].name, list[j].values[k]>>]
             \o DeclaredRows(list, j + 1)

\* C9: with an explicit covariates list (empty, naming covariates the
\* design lacks, declaring categories no sample has) the call returns a
\* matrix with one row per declared category, in the declared order, and
\* one column per sample; the column of a sample is 1 in the row of its
\* value and all-zero in the block of a covariate whose value is missing or
\* undeclared.
C9_DeclaredCategoryRows ==
    (arg.fn = "design_matrix_from" /\ pc # "input" /\ arg.covariates.given) =>
        /\ pc = "returned"
        /\ Len(out.index) = SumOfLengths(arg.covariates.list, 1)
        /\ out.index = DeclaredRows(arg.covariates.list, 1)
        /\ out.columns = [i \in 1..Len(arg.design) |-> SampleNames[i]]
        /\ Len(out.values) = Len(out.index)
        /\ \A r \in 1..Len(out.index) : \A i \in 1..Len(arg.design) :
              out.values[r][i] =
                  IF /\ out.index[r][1] \in {"batch", "tissue"}
                     /\ arg.design[i][out.index[r][1]] = out.index[r][2]
                  THEN 1 ELSE 0

----------------------------------------------------------------------------
(* Claim about center_crop                                                  *)

Count(sl) == sl.stop - sl.start

\* The axes of x that zip pairs with a target that is not None.
CroppedAxes ==
    {j \in 1..Min(Len(arg.shape), Len(arg.target_shape)) : ~arg.target_shape[j].none}

\* b elements from the centre of axis j: the margins before and after sum
\* to a - b and differ by at most 1.
Centred(j) ==
    LET a == arg.shape[j]
        b == arg.target_shape[j].size
        before == out.slices[j].start
        after  == a - out.slices[j].stop
    IN  /\ Count(out.slices[j]) = b
        /\ before + after = a - b
        /\ before - after \in {-1, 0, 1}

KeptWhole ==
    \A j \in (1..Len(arg.shape)) \ CroppedAxes :
        out.slices[j] = [start |-> 0, stop |-> arg.shape[j]]

\* C10 as stated: every axis with a target b holds exactly b elements from
\* its centre, also when b > a; the other axes are whole.
C10_ExactlyTarget ==
    (arg.fn = "center_crop" /\ pc = "returned") =>
        /\ Len(out.slices) = Len(arg.shape)
        /\ \A j \in CroppedAxes : Centred(j)
        /\ KeptWhole

\* C10 amended: every axis with a target b <= a holds exactly b elements
\* from its centre; an axis with a target b > a holds fewer than b elements,
\* the last ones of the axis (all of them when b = a + 1); the other axes
\* are whole.
C10_TargetWithinExtent ==
    (arg.fn = "center_crop" /\ pc = "returned") =>
        /\ Len(out.slices) = Len(arg.shape)
        /\ \A j \in CroppedAxes :
              IF arg.target_shape[j].size <= arg.shape[j]
              THEN Centred(j)
              ELSE /\ Count(out.slices[j]) < arg.target_shape[j].size
                   /\ out.slices[j].stop = arg.shape[j]
                   /\ (arg.target_shape[j].size = arg.shape[j] + 1)
                         => out.slices[j].start = 0
        /\ KeptWhole

C10_Witness ==
    /\ arg.fn = "center_crop"
    /\ pc = "returned"
    /\ arg.shape = <<4, 3>>
    /\ Len(arg.target_shape) = 2
    /\ arg.target_shape[1] = [none |-> FALSE, size |-> 1]
    /\ arg.target_shape[2].none
    /\ out.slices = <<[start |-> 2, stop |-> 3], [start |-> 0, stop |-> 3]>>

----------------------------------------------------------------------------
(* Claim about visualize_metagene_profile                                   *)

\* C11: every gene is plotted at most once: the lowest and the highest rows
\* selected are disjoint, and min(n, num_high) + max(min(n - num_high,
\* num_low), 0) rows are plotted, never more than the n genes, also for
\* num_high = 0 and num_high > n.
C11_EachGeneOnce ==
    (arg.fn = "visualize_metagene_profile" /\ pc # "input") =>
        LET n == Len(arg.profile)
        IN  /\ Range(out.low) \cap Range(out.high) = {}
            /\ \A r, t \in 1..Len(out.x) : out.x[r] = out.x[t] => r = t
            /\ Len(out.x) = Min(n, arg.num_high)
                              + Max(Min(n - arg.num_high, arg.num_low), 0)
            /\ Len(out.x) <= n

\* The same for the calls with num_high >= 1.
C11_HoldsForPositiveNumHigh ==
    arg.fn = "visualize_metagene_profile" /\ arg.num_high >= 1 => C11_EachGeneOnce

====
